---- MODULE Spec2Model ----
(***************************************************************************)
(* The one-time-passcode subsystem of the TaskMart backend: the in-memory   *)
(* OTPService (services/otpService.ts), the code generator and format      *)
(* check (utils/otp), and the three PasswordController handlers            *)
(* (forgotPassword, verifyOTP, resetPassword) that run as interleaved      *)
(* async request handlers on one Node.js event loop.                       *)
(*                                                                         *)
(* JavaScript strings are modelled as sequences of one-character strings,  *)
(* so that toLowerCase, toUpperCase, trim and the regular expressions are  *)
(* computed character by character.  Dates are integers counting minutes   *)
(* on a clock without daylight-saving transitions.                         *)
(***************************************************************************)
EXTENDS Integers, Sequences, FiniteSets, TLC

VARIABLES
    otpStore,    \* OTPService.otpStore: Map<string, OTPData>, a function keyed by the keys present
    now,         \* the wall clock read by new Date(), in minutes
    users,       \* the users table behind prisma.user: id -> [email, password]
    pc,          \* per request handler: the await point it is suspended at, or "idle"
    req,         \* per request handler: the locals of the running handler
    sent,        \* the HTTP response written by the step just taken, if any
    last,        \* the last call the step just taken made to the OTPService (or the delivery it settled), and what it returned
    mail,        \* key -> the sendOTPEmail call under way for the latest code issued for it: [to, code]
    serial,      \* history: key -> [n, at]: number and time of the issuance that created the record now stored
    accepted,    \* history: keys of the stored records for which a verifyOTP call has returned true
    issueCount,  \* history: number of generateAndStoreOTP calls so far
    issued,      \* history: key -> codes returned to direct callers of generateAndStoreOTP, in order
    consumed,    \* history: issuance number -> credential updates authorised by that record (counted to 2)
    spent        \* history: key -> code of the last successful reset since the last issuance

vars == <<otpStore, now, users, pc, req, sent, last, mail, serial, accepted, issueCount, issued,
          consumed, spent>>

(***************************************************************************)
(* Bounds of the model.                                                    *)
(***************************************************************************)
MaxTicks == 2      \* steps of the clock per run
MaxIssues == 2     \* generateAndStoreOTP calls per run
MaxUsers == 2      \* rows of the users table

Range(f) == {f[i] : i \in DOMAIN f}

(***************************************************************************)
(* Characters and the String methods the code uses.                        *)
(***************************************************************************)
LowerLetters == <<"a","b","c","d","e","f","g","h","i","j","k","l","m",
                  "n","o","p","q","r","s","t","u","v","w","x","y","z">>
UpperLetters == <<"A","B","C","D","E","F","G","H","I","J","K","L","M",
                  "N","O","P","Q","R","S","T","U","V","W","X","Y","Z">>
Digits == <<"0","1","2","3","4","5","6","7","8","9">>
Whitespace == {" "}

IndexOf(seq, ch) == CHOOSE i \in DOMAIN seq : seq[i] = ch

UpperSet == Range(UpperLetters)
LowerSet == Range(LowerLetters)
DigitSet == Range(Digits)

\* The case mappings of the letters, as tables
LowerOf == [ch \in UpperSet |-> LowerLetters[IndexOf(UpperLetters, ch)]]
UpperOf == [ch \in LowerSet |-> UpperLetters[IndexOf(LowerLetters, ch)]]

charToLowerCase(ch) == IF ch \in UpperSet THEN LowerOf[ch] ELSE ch

charToUpperCase(ch) == IF ch \in LowerSet THEN UpperOf[ch] ELSE ch

\* String.prototype.toLowerCase
toLowerCase(s) == [i \in 1..Len(s) |-> charToLowerCase(s[i])]

\* String.prototype.toUpperCase
toUpperCase(s) == [i \in 1..Len(s) |-> charToUpperCase(s[i])]

RECURSIVE trimStart(_)
trimStart(s) ==
    IF s # <<>> /\ Head(s) \in Whitespace THEN trimStart(Tail(s)) ELSE s

RECURSIVE trimEnd(_)
trimEnd(s) ==
    IF s # <<>> /\ s[Len(s)] \in Whitespace THEN trimEnd(SubSeq(s, 1, Len(s) - 1)) ELSE s

\* String.prototype.trim
trim(s) == trimEnd(trimStart(s))

(***************************************************************************)
(* utils/otp: the code generator and the format check.                     *)
(***************************************************************************)
OTP_LENGTH == 5

\* const chars = '0123456789ABCDEFGHIJKLMNOPQRSTUVWXYZ'
chars == Digits \o UpperLetters

\* Variant: the loop stops one character early.
generateOTP_short(rnd) == [i \in 1..(OTP_LENGTH - 1) |-> chars[rnd[i] + 1]]

\* generateOTP, given the five values of Math.floor(Math.random() * chars.length)
generateOTP(rnd) == [i \in 1..OTP_LENGTH |-> chars[rnd[i] + 1]]

\* Variant: the length of the code is not checked.
validateOTPFormat_anyLength(otp) ==
    LET u == toUpperCase(otp)
    IN  \A i \in 1..Len(u) : u[i] \in UpperSet \cup DigitSet

\* validateOTPFormat: /^[A-Z0-9]{5}$/.test(otp.toUpperCase())
validateOTPFormat(otp) ==
    LET u == toUpperCase(otp)
    IN  /\ Len(u) = OTP_LENGTH
        /\ \A i \in 1..Len(u) : u[i] \in UpperSet \cup DigitSet

(***************************************************************************)
(* utils/validation.ts                                                     *)
(***************************************************************************)
\* [^\s@]+ : a non-empty run without whitespace and without "@"
NoSpaceNoAt(s) == s # <<>> /\ \A i \in 1..Len(s) : s[i] \notin Whitespace \cup {"@"}

\* validateEmail: /^[^\s@]+@[^\s@]+\.[^\s@]+$/
validateEmail(email) ==
    \E i \in 1..Len(email), j \in 1..Len(email) :
        /\ i < j
        /\ email[i] = "@"
        /\ email[j] = "."
        /\ NoSpaceNoAt(SubSeq(email, 1, i - 1))
        /\ NoSpaceNoAt(SubSeq(email, i + 1, j - 1))
        /\ NoSpaceNoAt(SubSeq(email, j + 1, Len(email)))

MIN_PASSWORD_LENGTH == 7
SpecialChars == {"!", "@", "#", "$", "%", "^", "&", "*", "(", ")", "_", "+", "-", "=",
                 "[", "]", "{", "}", ";", "'", ":", "\"", "\\", "|", ",", ".", "<", ">",
                 "/", "?"}

HasCharIn(s, set) == \E i \in 1..Len(s) : s[i] \in set

\* getPasswordValidationErrors: the violated rules, in the order the code pushes them
getPasswordValidationErrors(password) ==
    (IF Len(password) < MIN_PASSWORD_LENGTH THEN <<"length">> ELSE <<>>)
    \o (IF ~HasCharIn(password, UpperSet) THEN <<"capital">> ELSE <<>>)
    \o (IF ~HasCharIn(password, DigitSet) THEN <<"number">> ELSE <<>>)
    \o (IF ~HasCharIn(password, SpecialChars) THEN <<"special">> ELSE <<>>)

\* The outcomes of the five random draws the model lets generateOTP see:
\* they spell A1B2C and A1B2D.
DrawPool == << <<10, 1, 11, 2, 12>>, <<10, 1, 11, 2, 13>> >>
Draws == Range(DrawPool)

(***************************************************************************)
(* services/otpService.ts.  Every method is synchronous, so each is one    *)
(* operator from the store (and the clock) to the new store and the        *)
(* returned value.                                                         *)
(***************************************************************************)
OTP_EXPIRY_MINUTES == 10

\* Map.prototype.set / delete / has on the function that models the Map
MapSet(m, k, v) == [x \in DOMAIN m \cup {k} |-> IF x = k THEN v ELSE m[x]]
MapDelete(m, k) == [x \in DOMAIN m \ {k} |-> m[x]]
MapHas(m, k) == k \in DOMAIN m

\* Variant: every entry issued before now is deleted.
cleanupExpiredOTPs_keepsNewest(store, t) ==
    [k \in {x \in DOMAIN store : ~(t + OTP_EXPIRY_MINUTES > store[x].expiresAt)} |-> store[k]]

\* Variant: the sweep deletes nothing.
cleanupExpiredOTPs_never(store, t) == store

\* cleanupExpiredOTPs: delete every entry with now > expiresAt
cleanupExpiredOTPs(store, t) ==
    [k \in {x \in DOMAIN store : ~(t > store[x].expiresAt)} |-> store[k]]

\* Variant: the record is stored under the identity as given.
generateAndStoreOTP_rawKey(store, t, email, rnd) ==
    LET code == generateOTP(rnd)
        stored == MapSet(store, email,
                         [code |-> code, email |-> email,
                          expiresAt |-> t + OTP_EXPIRY_MINUTES, verified |-> FALSE])
    IN  [store |-> cleanupExpiredOTPs(stored, t), ret |-> code]

\* Variant: a record already stored for the identity is kept.
generateAndStoreOTP_keepOld(store, t, email, rnd) ==
    LET code == generateOTP(rnd)
        stored == IF MapHas(store, toLowerCase(email))
                  THEN store
                  ELSE MapSet(store, toLowerCase(email),
                              [code |-> code, email |-> toLowerCase(email),
                               expiresAt |-> t + OTP_EXPIRY_MINUTES, verified |-> FALSE])
    IN  [store |-> cleanupExpiredOTPs(stored, t), ret |-> code]

\* Variant: a record already stored for the identity only has its code replaced.
generateAndStoreOTP_patchesCode(store, t, email, rnd) ==
    LET code == generateOTP(rnd)
        stored == IF MapHas(store, toLowerCase(email))
                  THEN MapSet(store, toLowerCase(email),
                              [store[toLowerCase(email)] EXCEPT !.code = code])
                  ELSE MapSet(store, toLowerCase(email),
                              [code |-> code, email |-> toLowerCase(email),
                               expiresAt |-> t + OTP_EXPIRY_MINUTES, verified |-> FALSE])
    IN  [store |-> cleanupExpiredOTPs(stored, t), ret |-> code]

\* generateAndStoreOTP: returns [store, ret]
generateAndStoreOTP(store, t, email, rnd) ==
    LET code == generateOTP(rnd)
        expiresAt == t + OTP_EXPIRY_MINUTES
        stored == MapSet(store, toLowerCase(email),
                         [code |-> code, email |-> toLowerCase(email),
                          expiresAt |-> expiresAt, verified |-> FALSE])
    IN  [store |-> cleanupExpiredOTPs(stored, t), ret |-> code]

\* Variant: a wrong code clears the verified flag.
verifyOTP_clearsOnMismatch(store, t, email, code) ==
    LET emailKey == toLowerCase(email)
    IN  IF ~MapHas(store, emailKey)
        THEN [store |-> store, ret |-> FALSE]
        ELSE IF t > store[emailKey].expiresAt
        THEN [store |-> MapDelete(store, emailKey), ret |-> FALSE]
        ELSE IF toUpperCase(store[emailKey].code) # toUpperCase(code)
        THEN [store |-> MapSet(store, emailKey, [store[emailKey] EXCEPT !.verified = FALSE]),
              ret |-> FALSE]
        ELSE [store |-> MapSet(store, emailKey, [store[emailKey] EXCEPT !.verified = TRUE]),
              ret |-> TRUE]

\* Variant: the record is looked up under the identity as given.
verifyOTP_rawKey(store, t, email, code) ==
    LET emailKey == email
    IN  IF ~MapHas(store, emailKey)
        THEN [store |-> store, ret |-> FALSE]
        ELSE IF t > store[emailKey].expiresAt
        THEN [store |-> MapDelete(store, emailKey), ret |-> FALSE]
        ELSE IF toUpperCase(store[emailKey].code) # toUpperCase(code)
        THEN [store |-> store, ret |-> FALSE]
        ELSE [store |-> MapSet(store, emailKey, [store[emailKey] EXCEPT !.verified = TRUE]),
              ret |-> TRUE]

\* Variant: the codes are compared as given.
verifyOTP_caseSensitive(store, t, email, code) ==
    LET emailKey == toLowerCase(email)
    IN  IF ~MapHas(store, emailKey)
        THEN [store |-> store, ret |-> FALSE]
        ELSE IF t > store[emailKey].expiresAt
        THEN [store |-> MapDelete(store, emailKey), ret |-> FALSE]
        ELSE IF store[emailKey].code # code
        THEN [store |-> store, ret |-> FALSE]
        ELSE [store |-> MapSet(store, emailKey, [store[emailKey] EXCEPT !.verified = TRUE]),
              ret |-> TRUE]

\* Variant: a wrong code deletes the record.
verifyOTP_deletesOnMismatch(store, t, email, code) ==
    LET emailKey == toLowerCase(email)
    IN  IF ~MapHas(store, emailKey)
        THEN [store |-> store, ret |-> FALSE]
        ELSE IF t > store[emailKey].expiresAt
        THEN [store |-> MapDelete(store, emailKey), ret |-> FALSE]
        ELSE IF toUpperCase(store[emailKey].code) # toUpperCase(code)
        THEN [store |-> MapDelete(store, emailKey), ret |-> FALSE]
        ELSE [store |-> MapSet(store, emailKey, [store[emailKey] EXCEPT !.verified = TRUE]),
              ret |-> TRUE]

\* Variant: a successful verification renews the validity window.
verifyOTP_renews(store, t, email, code) ==
    LET emailKey == toLowerCase(email)
    IN  IF ~MapHas(store, emailKey)
        THEN [store |-> store, ret |-> FALSE]
        ELSE IF t > store[emailKey].expiresAt
        THEN [store |-> MapDelete(store, emailKey), ret |-> FALSE]
        ELSE IF toUpperCase(store[emailKey].code) # toUpperCase(code)
        THEN [store |-> store, ret |-> FALSE]
        ELSE [store |-> MapSet(store, emailKey,
                               [store[emailKey] EXCEPT !.verified = TRUE,
                                                       !.expiresAt = t + OTP_EXPIRY_MINUTES]),
              ret |-> TRUE]

\* verifyOTP: returns [store, ret]
verifyOTP(store, t, email, code) ==
    LET emailKey == toLowerCase(email)
    IN  IF ~MapHas(store, emailKey)
        THEN [store |-> store, ret |-> FALSE]
        ELSE IF t > store[emailKey].expiresAt
        THEN [store |-> MapDelete(store, emailKey), ret |-> FALSE]
        ELSE IF toUpperCase(store[emailKey].code) # toUpperCase(code)
        THEN [store |-> store, ret |-> FALSE]
        ELSE [store |-> MapSet(store, emailKey, [store[emailKey] EXCEPT !.verified = TRUE]),
              ret |-> TRUE]

\* Variant: any verified record answers for the identity.
isOTPVerified_anyRecord(store, email) ==
    \E k \in DOMAIN store : store[k].verified = TRUE

\* Variant: every identity counts as verified.
isOTPVerified_always(store, email) == TRUE

\* isOTPVerified: otpData?.verified === true
isOTPVerified(store, email) ==
    LET emailKey == toLowerCase(email)
    IN  MapHas(store, emailKey) /\ store[emailKey].verified = TRUE

\* Variant: nothing is deleted.
removeOTP_keeps(store, email) == store

\* removeOTP
removeOTP(store, email) == MapDelete(store, toLowerCase(email))

(***************************************************************************)
(* Strings the model feeds to the program.                                 *)
(***************************************************************************)
Email_a == <<"a", "@", "x", ".", "c">>
Email_A == <<"A", "@", "X", ".", "c">>
Email_sp_a == <<" ", "a", "@", "x", ".", "c">>
Email_b == <<"b", "@", "x", ".", "c">>

\* Every spelling of a string of letters that differs from it in letter case
\* in at most the first position, plus the all-lower-case spelling.
CaseSpellings(s) ==
    {s, toLowerCase(s), [i \in 1..Len(s) |-> IF i = 1 THEN charToLowerCase(s[i]) ELSE s[i]]}

GeneratedCodes == {generateOTP(d) : d \in Draws}

\* Codes a caller may present: the first generated code in several spellings,
\* cut short by one character and extended by one, and the other generated codes.
PresentedCodes ==
    LET c == generateOTP(DrawPool[1])
    IN  CaseSpellings(c) \cup {SubSeq(c, 1, Len(c) - 1), c \o <<c[Len(c)]>>} \cup GeneratedCodes

\* Identities handed to the OTPService methods directly.
StoreEmails == {Email_a, Email_A, Email_sp_a}

\* The clock moves in steps of the validity window, so that a record is
\* seen before, exactly at and after its expiresAt.
ClockStep == OTP_EXPIRY_MINUTES

Procs == {1, 2}

NoRequest == [kind |-> "none"]
NoResponse == [kind |-> "none"]
NoCall == [op |-> "none"]

EmptyMap == [k \in {} |-> 0]

Init ==
    /\ otpStore = EmptyMap
    /\ now = 0
    /\ users = EmptyMap
    /\ pc = [p \in Procs |-> "idle"]
    /\ req = [p \in Procs |-> NoRequest]
    /\ sent = NoResponse
    /\ last = NoCall
    /\ mail = EmptyMap
    /\ serial = EmptyMap
    /\ accepted = {}
    /\ issueCount = 0
    /\ issued = EmptyMap
    /\ consumed = EmptyMap
    /\ spent = EmptyMap

(***************************************************************************)
(* History bookkeeping shared by every action that calls the store.        *)
(***************************************************************************)
\* The issuance numbers of the records that survive in store2.
Surviving(ser, store2) == [k \in DOMAIN store2 |-> ser[k]]

\* After generateAndStoreOTP for key k: the record the call wrote gets the
\* next number, the records it left alone keep theirs.
SerialAfterIssue(ser, store2, k, n, t) ==
    [x \in DOMAIN store2 |->
        IF x = k \/ x \notin DOMAIN ser THEN [n |-> n, at |-> t] ELSE ser[x]]

\* The keys whose record was accepted by verifyOTP and is still stored.
StillAccepted(acc, store2) == acc \cap DOMAIN store2

\* After generateAndStoreOTP for key k: the new record has not been accepted.
AcceptedAfterIssue(acc, store2, k) == StillAccepted(acc, store2) \ {k}

\* After a verifyOTP call for key k that returned ret.
AcceptedAfterVerify(acc, store2, k, ret) ==
    StillAccepted(acc, store2) \cup (IF ret THEN {k} \cap DOMAIN store2 ELSE {})

\* A handler's OTPService call was a verifyOTP that returned true.
VerifiedNow(call) == call.op = "verify" /\ call.ret

IssuedAfterIssue(iss, k, code) ==
    MapSet(iss, k, (IF k \in DOMAIN iss THEN iss[k] ELSE <<>>) \o <<code>>)

\* What the Map held under the key of a call before the call.
NoRecord == [code |-> <<>>, email |-> <<>>, expiresAt |-> -1, verified |-> FALSE]
PreRecord(store, email) ==
    IF MapHas(store, toLowerCase(email)) THEN store[toLowerCase(email)] ELSE NoRecord

\* The clock advances between any two steps of the program.
Tick ==
    /\ now + ClockStep <= MaxTicks * ClockStep
    /\ now' = now + ClockStep
    /\ last' = NoCall
    /\ sent' = NoResponse
    /\ UNCHANGED <<otpStore, users, pc, req, mail, serial, accepted, issueCount, issued, consumed, spent>>

(***************************************************************************)
(* The OTPService driven directly through its four public methods.         *)
(***************************************************************************)
StoreIssue ==
    /\ issueCount < MaxIssues
    /\ \E email \in StoreEmails, rnd \in Draws :
        \E r \in {generateAndStoreOTP(otpStore, now, email, rnd)}, k \in {toLowerCase(email)} :
            /\ otpStore' = r.store
            /\ last' = [op |-> "issue", email |-> email, ret |-> r.ret,
                        at |-> now, pre |-> PreRecord(otpStore, email),
                        swept |-> DOMAIN otpStore \ (DOMAIN r.store \cup {k})]
            /\ issueCount' = issueCount + 1
            /\ serial' = SerialAfterIssue(serial, r.store, k, issueCount + 1, now)
            /\ accepted' = AcceptedAfterIssue(accepted, r.store, k)
            /\ issued' = IssuedAfterIssue(issued, k, r.ret)
    /\ UNCHANGED <<now, users, pc, req, sent, mail, consumed, spent>>

StoreVerify ==
    /\ \E email \in StoreEmails, code \in PresentedCodes :
        \E r \in {verifyOTP(otpStore, now, email, code)} :
            /\ otpStore' = r.store
            /\ last' = [op |-> "verify", email |-> email, code |-> code, ret |-> r.ret,
                        at |-> now, pre |-> PreRecord(otpStore, email),
                        issuedAt |-> IF MapHas(otpStore, toLowerCase(email))
                                     THEN serial[toLowerCase(email)].at ELSE -1]
            /\ serial' = Surviving(serial, r.store)
            /\ accepted' = AcceptedAfterVerify(accepted, r.store, toLowerCase(email), r.ret)
    /\ UNCHANGED <<now, users, pc, req, sent, mail, issueCount, issued, consumed, spent>>

StoreIsVerified ==
    /\ \E email \in StoreEmails :
        last' = [op |-> "isVerified", email |-> email, ret |-> isOTPVerified(otpStore, email),
                 at |-> now, pre |-> PreRecord(otpStore, email)]
    /\ UNCHANGED <<otpStore, now, users, pc, req, sent, mail, serial, accepted, issueCount, issued, consumed, spent>>

StoreRemove ==
    /\ \E email \in StoreEmails :
        \E store2 \in {removeOTP(otpStore, email)} :
            /\ otpStore' = store2
            /\ last' = [op |-> "remove", email |-> email, at |-> now,
                        pre |-> PreRecord(otpStore, email)]
            /\ serial' = Surviving(serial, store2)
            /\ accepted' = StillAccepted(accepted, store2)
    /\ UNCHANGED <<now, users, pc, req, sent, mail, issueCount, issued, consumed, spent>>

StoreNext == StoreIssue \/ StoreVerify \/ StoreIsVerified \/ StoreRemove \/ Tick

StoreSpec == Init /\ [][StoreNext]_vars

(***************************************************************************)
(* models/User.ts: the users table.  A row's id is the order of creation;  *)
(* findUnique compares the email column exactly; rows are never deleted.   *)
(***************************************************************************)
NoUser == 0

findByEmail(tbl, email) ==
    IF \E id \in DOMAIN tbl : tbl[id].email = email
    THEN CHOOSE id \in DOMAIN tbl : tbl[id].email = email
    ELSE NoUser

emailExists(tbl, email) == \E id \in DOMAIN tbl : tbl[id].email = email

create(tbl, data) == MapSet(tbl, Cardinality(DOMAIN tbl) + 1, data)

\* Variant: the row is left as it was.
updatePassword_skips(tbl, userId, hashedPassword) == tbl

\* UserModel.updatePassword
updatePassword(tbl, userId, hashedPassword) ==
    [tbl EXCEPT ![userId].password = hashedPassword]

\* utils/password hashPassword: an injective tag on the plain text
hashPassword(password) == <<"hashed">> \o password

(***************************************************************************)
(* Request bodies.  A field that is absent and a field that is the empty   *)
(* string are both falsy to the handlers; both are the empty sequence.     *)
(***************************************************************************)
Code1 == generateOTP(DrawPool[1])
Code2 == generateOTP(DrawPool[2])
StrongPassword == <<"A", "b", "c", "d", "e", "1", "!">>
WeakPassword == <<"a", "b", "c", "d", "e", "f", "1">>
SignupPassword == <<"S", "i", "g", "n", "u", "p", "1", "!">>

Email_A_padded == <<" ">> \o Email_A \o <<" ">>
Code1_lower_padded == <<" ">> \o toLowerCase(Code1)

\* <<newPassword, confirmPassword>>
PasswordPairs == {<<StrongPassword, StrongPassword>>, <<WeakPassword, StrongPassword>>,
                  <<WeakPassword, WeakPassword>>, <<StrongPassword, <<>> >>,
                  << <<>>, <<>> >>}
Bodies(emails, otps, pairs) ==
    {[email |-> e, otp |-> o, newPassword |-> pw[1], confirmPassword |-> pw[2]] :
        e \in emails, o \in otps, pw \in pairs}

\* Request bodies of the interleaved runs: well-formed fields, right and wrong
\* codes, acceptable and unacceptable new passwords, for an identity with an
\* account (in another spelling) and for one without.
CoreEmails == {Email_A_padded, Email_b}
CoreOTPs == {Code1_lower_padded, Code2}
CoreBodies ==
    Bodies(CoreEmails, CoreOTPs,
           {<<StrongPassword, StrongPassword>>, <<WeakPassword, StrongPassword>>})

\* Bodies of verify-otp requests: email and otp only
VerifyBodies(emails, otps) == {[email |-> e, otp |-> o] : e \in emails, o \in otps}
CoreVerifyBodies == VerifyBodies(CoreEmails, CoreOTPs)

\* Request bodies of the sequential runs: the above and every malformation.
AllEmails == CoreEmails \cup {<<>>, <<"a", "x">>}
AllOTPs == {Code1_lower_padded, Code2, SubSeq(Code1, 1, Len(Code1) - 1), <<>>}
AllBodies == Bodies(CoreEmails \cup {<<>>}, AllOTPs, PasswordPairs)
AllVerifyBodies == VerifyBodies(CoreEmails \cup {<<>>}, AllOTPs)
\* Accounts are opened under the lower-case spelling in the interleaved runs,
\* under either spelling in the sequential runs.
CoreSignups == {Email_a}
SignupEmails == {Email_a, Email_A}

Response(kind, error, message, email, otp) ==
    [kind |-> kind, error |-> error, message |-> message, email |-> email, otp |-> otp]

Falsy(s) == s = <<>>

(***************************************************************************)
(* AuthController.signup, as far as it fills the users table.  The name    *)
(* and phone number are taken to be valid.  The handler's lookup and       *)
(* insert are one step: the unique index on email makes a racing insert    *)
(* fail, so the table ends as if they were.                                *)
(***************************************************************************)
Signup(email) ==
    /\ Cardinality(DOMAIN users) < MaxUsers
    /\ validateEmail(email)
    /\ getPasswordValidationErrors(SignupPassword) = <<>>
    /\ ~emailExists(users, email)
    /\ users' = create(users, [email |-> trim(email),
                               password |-> hashPassword(SignupPassword)])
    /\ sent' = NoResponse
    /\ last' = NoCall
    /\ UNCHANGED <<otpStore, now, pc, req, mail, serial, accepted, issueCount, issued, consumed, spent>>

(***************************************************************************)
(* PasswordController.forgotPassword                                       *)
(***************************************************************************)
\* Variant: the acknowledgment says that no account was found.
NoAccountAck_reveals == <<"No account with this email exists.">>

\* line 43: the acknowledgment when no account was found
NoAccountAck == <<"If an account with this email exists, an OTP code has been sent.">>

\* line 58: the acknowledgment after a code was issued
GenericAck == <<"If an account with this email exists, an OTP code has been sent.">>

\* A new request runs in the first handler slot that is free.
Free(p) == pc[p] = "idle" /\ \A q \in Procs : q < p => pc[q] # "idle"

\* lines 24-38: up to the await of UserModel.findByEmail
ForgotStart(p, email) ==
    /\ Free(p)
    /\ issueCount + Cardinality({q \in Procs : pc[q] = "fp_find"}) < MaxIssues
    /\ \E trimmedEmail \in {toLowerCase(trim(email))} :
            IF Falsy(email) \/ Falsy(trim(email))
            THEN /\ sent' = Response("forgotPassword", "Validation", <<"Email is required">>,
                                     trimmedEmail, <<>>)
                 /\ UNCHANGED <<pc, req>>
            ELSE IF ~validateEmail(trimmedEmail)
            THEN /\ sent' = Response("forgotPassword", "Validation", <<"Invalid email format">>,
                                     trimmedEmail, <<>>)
                 /\ UNCHANGED <<pc, req>>
            ELSE /\ pc' = [pc EXCEPT ![p] = "fp_find"]
                 /\ req' = [req EXCEPT ![p] = [kind |-> "forgotPassword",
                                               trimmedEmail |-> trimmedEmail,
                                               seen |-> issueCount]]
                 /\ sent' = NoResponse
    /\ last' = NoCall
    /\ UNCHANGED <<otpStore, now, users, mail, serial, accepted, issueCount, issued, consumed, spent>>

\* EmailService.sendOTPEmail up to its first await: without a transporter
\* the call returns at once (no message), otherwise the SMTP exchange for
\* the message is under way.
sendOTPEmail(isConfigured, userEmail, otpCode) ==
    IF ~isConfigured THEN <<>> ELSE <<[to |-> userEmail, code |-> otpCode]>>

\* Variant: a code is issued whether or not an account was found.
forgotPasswordResume_issuesAnyway(store, t, tbl, trimmedEmail, rnd, isConfigured) ==
    LET user == findByEmail(tbl, trimmedEmail)
        r == generateAndStoreOTP(store, t, trimmedEmail, rnd)
    IN  [store |-> r.store,
         call |-> [op |-> "issue", ret |-> r.ret],
         deliver |-> IF user = NoUser THEN <<>>
                     ELSE sendOTPEmail(isConfigured, tbl[user].email, r.ret),
         message |-> IF user = NoUser THEN NoAccountAck ELSE GenericAck]

\* lines 38-61: what the handler does once the lookup has resolved; returns
\* [store, call, deliver, message]: the store, the OTPService call made, the
\* SMTP exchange started (a sequence of at most one) and the message sent
forgotPasswordResume(store, t, tbl, trimmedEmail, rnd, isConfigured) ==
    LET user == findByEmail(tbl, trimmedEmail)
    IN  IF user = NoUser
        THEN [store |-> store, call |-> NoCall, deliver |-> <<>>, message |-> NoAccountAck]
        ELSE LET r == generateAndStoreOTP(store, t, trimmedEmail, rnd)
             IN  [store |-> r.store,
                  call |-> [op |-> "issue", ret |-> r.ret],
                  deliver |-> sendOTPEmail(isConfigured, tbl[user].email, r.ret),
                  message |-> GenericAck]

\* lines 38-61: the lookup resolves and the handler runs to its end; last
\* also tells whether another handler issued a code while this one waited
ForgotFound(p) ==
    /\ pc[p] = "fp_find"
    /\ \E rnd \in Draws, isConfigured \in BOOLEAN :
        \E r \in {forgotPasswordResume(otpStore, now, users, req[p].trimmedEmail,
                                       rnd, isConfigured)},
           k \in {toLowerCase(req[p].trimmedEmail)} :
            /\ otpStore' = r.store
            /\ last' = IF r.call = NoCall THEN NoCall
                       ELSE [op |-> r.call.op, ret |-> r.call.ret,
                             overlapped |-> req[p].seen < issueCount]
            /\ sent' = Response("forgotPassword", "none", r.message, req[p].trimmedEmail, <<>>)
            /\ IF r.call = NoCall
               THEN /\ serial' = Surviving(serial, r.store)
                    /\ accepted' = StillAccepted(accepted, r.store)
                    /\ UNCHANGED <<issueCount, spent>>
               ELSE /\ issueCount' = issueCount + 1
                    /\ serial' = SerialAfterIssue(serial, r.store, k, issueCount + 1, now)
                    /\ accepted' = AcceptedAfterIssue(accepted, r.store, k)
                    /\ spent' = MapDelete(spent, k)
            /\ mail' = IF r.deliver # <<>> THEN MapSet(mail, k, r.deliver[1])
                       ELSE IF r.call = NoCall THEN mail
                       ELSE MapDelete(mail, k)
    /\ pc' = [pc EXCEPT ![p] = "idle"]
    /\ req' = [req EXCEPT ![p] = NoRequest]
    /\ UNCHANGED <<now, users, issued, consumed>>

\* Variant: a failed delivery withdraws the code.
sendOTPEmailSettled_withdraws(store, email, outcome) ==
    IF outcome = "failed" THEN removeOTP(store, email) ELSE store

\* EmailService.sendOTPEmail lines 496-513 and the .catch of the caller:
\* either outcome is logged and nothing else is done
sendOTPEmailSettled(store, email, outcome) == store

DeliveryOutcomes == {"sent", "failed"}

\* The SMTP exchange of a sendOTPEmail call ends, well or badly; last
\* records which exchange ended and how.
DeliverySettles ==
    /\ \E k \in DOMAIN mail, outcome \in DeliveryOutcomes :
        /\ mail' = MapDelete(mail, k)
        /\ last' = [op |-> "sendOTPEmail", email |-> k, code |-> mail[k].code,
                    outcome |-> outcome]
        /\ \E store2 \in {sendOTPEmailSettled(otpStore, k, outcome)} :
            /\ otpStore' = store2
            /\ serial' = Surviving(serial, store2)
            /\ accepted' = StillAccepted(accepted, store2)
    /\ sent' = NoResponse
    /\ UNCHANGED <<now, users, pc, req, issueCount, issued, consumed, spent>>

(***************************************************************************)
(* PasswordController.verifyOTP: no await, the handler is one step.        *)
(***************************************************************************)
\* What last keeps of a verifyOTP / isOTPVerified call made by a handler.
VerifyCall(ret) == [op |-> "verify", ret |-> ret]

IsVerifiedCall(ret) == [op |-> "isVerified", ret |-> ret]

\* Variant: a request for an identity without a record is told so.
verifyOTPHandler_tellsNoRecord(store, t, body) ==
    LET trimmedEmail == toLowerCase(trim(body.email))
        trimmedOTP == toUpperCase(trim(body.otp))
        Reply(st, call, error, message) ==
            [store |-> st, call |-> call,
             response |-> Response("verifyOTP", error, message, trimmedEmail, trimmedOTP)]
    IN  IF Falsy(body.email) \/ Falsy(trim(body.email))
        THEN Reply(store, NoCall, "Validation", <<"Email is required">>)
        ELSE IF Falsy(body.otp) \/ Falsy(trim(body.otp))
        THEN Reply(store, NoCall, "Validation", <<"OTP code is required">>)
        ELSE IF ~validateOTPFormat(trimmedOTP)
        THEN Reply(store, NoCall, "Validation",
                   <<"Invalid OTP format. OTP must be 5 alphanumeric characters.">>)
        ELSE LET r == verifyOTP(store, t, trimmedEmail, trimmedOTP)
                 call == VerifyCall(r.ret)
             IN  IF ~MapHas(store, trimmedEmail)
                 THEN Reply(r.store, call, "NotFound", <<"No OTP was requested">>)
                 ELSE IF ~r.ret
                 THEN Reply(r.store, call, "Unauthorized", <<"Invalid or expired OTP code">>)
                 ELSE Reply(r.store, call, "none", <<"OTP verified successfully">>)

\* lines 68-99: returns [store, call, response]
verifyOTPHandler(store, t, body) ==
    LET trimmedEmail == toLowerCase(trim(body.email))
        trimmedOTP == toUpperCase(trim(body.otp))
        Reply(st, call, error, message) ==
            [store |-> st, call |-> call,
             response |-> Response("verifyOTP", error, message, trimmedEmail, trimmedOTP)]
    IN  IF Falsy(body.email) \/ Falsy(trim(body.email))
        THEN Reply(store, NoCall, "Validation", <<"Email is required">>)
        ELSE IF Falsy(body.otp) \/ Falsy(trim(body.otp))
        THEN Reply(store, NoCall, "Validation", <<"OTP code is required">>)
        ELSE IF ~validateOTPFormat(trimmedOTP)
        THEN Reply(store, NoCall, "Validation",
                   <<"Invalid OTP format. OTP must be 5 alphanumeric characters.">>)
        ELSE LET r == verifyOTP(store, t, trimmedEmail, trimmedOTP)
                 call == VerifyCall(r.ret)
             IN  IF ~r.ret
                 THEN Reply(r.store, call, "Unauthorized", <<"Invalid or expired OTP code">>)
                 ELSE Reply(r.store, call, "none", <<"OTP verified successfully">>)

VerifyRequest(p, body) ==
    /\ Free(p)
    /\ \E r \in {verifyOTPHandler(otpStore, now, body)} :
            /\ otpStore' = r.store
            /\ serial' = Surviving(serial, r.store)
            /\ accepted' = AcceptedAfterVerify(accepted, r.store, toLowerCase(trim(body.email)),
                                                VerifiedNow(r.call))
            /\ sent' = r.response
            /\ last' = r.call
    /\ UNCHANGED <<now, users, pc, req, mail, issueCount, issued, consumed, spent>>

(***************************************************************************)
(* PasswordController.resetPassword                                        *)
(***************************************************************************)
\* Variant: without the inline verifyOTP; only a record verified before passes.
resetPasswordChecks_noFallback(store, t, body) ==
    LET trimmedEmail == toLowerCase(trim(body.email))
        trimmedOTP == toUpperCase(trim(body.otp))
        Throw(st, call, error, message) ==
            [store |-> st, call |-> call, proceed |-> FALSE,
             response |-> Response("resetPassword", error, message, trimmedEmail, trimmedOTP)]
    IN  IF Falsy(body.email) \/ Falsy(trim(body.email))
        THEN Throw(store, NoCall, "Validation", <<"Email is required">>)
        ELSE IF Falsy(body.otp) \/ Falsy(trim(body.otp))
        THEN Throw(store, NoCall, "Validation", <<"OTP code is required">>)
        ELSE IF Falsy(body.newPassword)
        THEN Throw(store, NoCall, "Validation", <<"New password is required">>)
        ELSE IF Falsy(body.confirmPassword)
        THEN Throw(store, NoCall, "Validation", <<"Confirm password is required">>)
        ELSE IF ~validateOTPFormat(trimmedOTP)
        THEN Throw(store, NoCall, "Validation",
                   <<"Invalid OTP format. OTP must be 5 alphanumeric characters.">>)
        ELSE LET ret == isOTPVerified(store, trimmedEmail)
             IN  IF ~ret
                 THEN Throw(store, IsVerifiedCall(FALSE), "Unauthorized",
                            <<"Invalid or expired OTP code. Please request a new OTP.">>)
                 ELSE IF body.newPassword # body.confirmPassword
                 THEN Throw(store, IsVerifiedCall(TRUE), "Validation", <<"Passwords do not match">>)
                 ELSE IF getPasswordValidationErrors(body.newPassword) # <<>>
                 THEN Throw(store, IsVerifiedCall(TRUE), "Validation",
                            getPasswordValidationErrors(body.newPassword))
                 ELSE [store |-> store, call |-> IsVerifiedCall(TRUE), proceed |-> TRUE,
                       response |-> NoResponse]

\* Variant: the two passwords are compared before the code is looked at.
resetPasswordChecks_passwordsFirst(store, t, body) ==
    LET trimmedEmail == toLowerCase(trim(body.email))
        trimmedOTP == toUpperCase(trim(body.otp))
        Throw(st, call, error, message) ==
            [store |-> st, call |-> call, proceed |-> FALSE,
             response |-> Response("resetPassword", error, message, trimmedEmail, trimmedOTP)]
    IN  IF Falsy(body.email) \/ Falsy(trim(body.email))
        THEN Throw(store, NoCall, "Validation", <<"Email is required">>)
        ELSE IF Falsy(body.otp) \/ Falsy(trim(body.otp))
        THEN Throw(store, NoCall, "Validation", <<"OTP code is required">>)
        ELSE IF Falsy(body.newPassword)
        THEN Throw(store, NoCall, "Validation", <<"New password is required">>)
        ELSE IF Falsy(body.confirmPassword)
        THEN Throw(store, NoCall, "Validation", <<"Confirm password is required">>)
        ELSE IF ~validateOTPFormat(trimmedOTP)
        THEN Throw(store, NoCall, "Validation",
                   <<"Invalid OTP format. OTP must be 5 alphanumeric characters.">>)
        ELSE IF body.newPassword # body.confirmPassword
        THEN Throw(store, NoCall, "Validation", <<"Passwords do not match">>)
        ELSE LET v == IF isOTPVerified(store, trimmedEmail)
                      THEN [store |-> store, ret |-> TRUE, call |-> IsVerifiedCall(TRUE)]
                      ELSE LET r == verifyOTP(store, t, trimmedEmail, trimmedOTP)
                           IN  [store |-> r.store, ret |-> r.ret, call |-> VerifyCall(r.ret)]
             IN  IF ~v.ret
                 THEN Throw(v.store, v.call, "Unauthorized",
                            <<"Invalid or expired OTP code. Please request a new OTP.">>)
                 ELSE IF getPasswordValidationErrors(body.newPassword) # <<>>
                 THEN Throw(v.store, v.call, "Validation",
                            getPasswordValidationErrors(body.newPassword))
                 ELSE [store |-> v.store, call |-> v.call, proceed |-> TRUE,
                       response |-> NoResponse]

\* lines 106-151: the checks before the first await; returns
\* [store, call, proceed, response], call being the last OTPService call made
resetPasswordChecks(store, t, body) ==
    LET trimmedEmail == toLowerCase(trim(body.email))
        trimmedOTP == toUpperCase(trim(body.otp))
        Throw(st, call, error, message) ==
            [store |-> st, call |-> call, proceed |-> FALSE,
             response |-> Response("resetPassword", error, message, trimmedEmail, trimmedOTP)]
    IN  IF Falsy(body.email) \/ Falsy(trim(body.email))
        THEN Throw(store, NoCall, "Validation", <<"Email is required">>)
        ELSE IF Falsy(body.otp) \/ Falsy(trim(body.otp))
        THEN Throw(store, NoCall, "Validation", <<"OTP code is required">>)
        ELSE IF Falsy(body.newPassword)
        THEN Throw(store, NoCall, "Validation", <<"New password is required">>)
        ELSE IF Falsy(body.confirmPassword)
        THEN Throw(store, NoCall, "Validation", <<"Confirm password is required">>)
        ELSE IF ~validateOTPFormat(trimmedOTP)
        THEN Throw(store, NoCall, "Validation",
                   <<"Invalid OTP format. OTP must be 5 alphanumeric characters.">>)
        ELSE LET v == IF isOTPVerified(store, trimmedEmail)
                      THEN [store |-> store, ret |-> TRUE,
                            call |-> IsVerifiedCall(TRUE)]
                      ELSE LET r == verifyOTP(store, t, trimmedEmail, trimmedOTP)
                           IN  [store |-> r.store, ret |-> r.ret,
                                call |-> VerifyCall(r.ret)]
             IN  IF ~v.ret
                 THEN Throw(v.store, v.call, "Unauthorized",
                            <<"Invalid or expired OTP code. Please request a new OTP.">>)
                 ELSE IF body.newPassword # body.confirmPassword
                 THEN Throw(v.store, v.call, "Validation", <<"Passwords do not match">>)
                 ELSE IF getPasswordValidationErrors(body.newPassword) # <<>>
                 THEN Throw(v.store, v.call, "Validation",
                            getPasswordValidationErrors(body.newPassword))
                 ELSE [store |-> v.store, call |-> v.call, proceed |-> TRUE,
                       response |-> NoResponse]

\* lines 106-154: up to the await of UserModel.findByEmail
ResetStart(p, body) ==
    /\ Free(p)
    /\ \E r \in {resetPasswordChecks(otpStore, now, body)},
          trimmedEmail \in {toLowerCase(trim(body.email))} :
            /\ otpStore' = r.store
            /\ serial' = Surviving(serial, r.store)
            /\ accepted' = AcceptedAfterVerify(accepted, r.store, trimmedEmail,
                                                VerifiedNow(r.call))
            /\ sent' = r.response
            /\ IF r.proceed
               THEN /\ pc' = [pc EXCEPT ![p] = "rp_find"]
                    /\ req' = [req EXCEPT ![p] =
                                  [kind |-> "resetPassword",
                                   trimmedEmail |-> trimmedEmail,
                                   trimmedOTP |-> toUpperCase(trim(body.otp)),
                                   newPassword |-> body.newPassword,
                                   userId |-> NoUser,
                                   hashedPassword |-> <<>>,
                                   auth |-> IF trimmedEmail \in DOMAIN serial
                                            THEN serial[trimmedEmail].n ELSE 0,
                                   authAt |-> now,
                                   authRecord |-> PreRecord(r.store, trimmedEmail),
                                   authAccepted |-> trimmedEmail \in accepted']]
               ELSE UNCHANGED <<pc, req>>
            /\ last' = r.call
    /\ UNCHANGED <<now, users, mail, issueCount, issued, consumed, spent>>

\* lines 154-160: the lookup resolves; hashing starts
ResetFound(p) ==
    /\ pc[p] = "rp_find"
    /\ LET user == findByEmail(users, req[p].trimmedEmail)
       IN  IF user = NoUser
           THEN /\ sent' = Response("resetPassword", "NotFound", <<"User not found">>,
                                    req[p].trimmedEmail, req[p].trimmedOTP)
                /\ pc' = [pc EXCEPT ![p] = "idle"]
                /\ req' = [req EXCEPT ![p] = NoRequest]
           ELSE /\ sent' = NoResponse
                /\ pc' = [pc EXCEPT ![p] = "rp_hash"]
                /\ req' = [req EXCEPT ![p].userId = user]
    /\ last' = NoCall
    /\ UNCHANGED <<otpStore, now, users, mail, serial, accepted, issueCount, issued, consumed, spent>>

\* lines 160-163: the hash resolves; the update is sent to the database
ResetHashed(p) ==
    /\ pc[p] = "rp_hash"
    /\ pc' = [pc EXCEPT ![p] = "rp_update"]
    /\ req' = [req EXCEPT ![p].hashedPassword = hashPassword(req[p].newPassword)]
    /\ sent' = NoResponse
    /\ last' = NoCall
    /\ UNCHANGED <<otpStore, now, users, mail, serial, accepted, issueCount, issued, consumed, spent>>

\* line 163: the database writes the new credential
ResetWrite(p) ==
    /\ pc[p] = "rp_update"
    /\ users' = updatePassword(users, req[p].userId, req[p].hashedPassword)
    /\ consumed' = MapSet(consumed, req[p].auth,
                          IF req[p].auth \in DOMAIN consumed THEN 2 ELSE 1)
    /\ pc' = [pc EXCEPT ![p] = "rp_remove"]
    /\ sent' = NoResponse
    /\ last' = NoCall
    /\ UNCHANGED <<otpStore, now, req, mail, serial, accepted, issueCount, issued, spent>>

\* lines 165-172: the update resolves; the record is removed and the reply sent
ResetFinish(p) ==
    /\ pc[p] = "rp_remove"
    /\ \E store2 \in {removeOTP(otpStore, req[p].trimmedEmail)} :
        /\ otpStore' = store2
        /\ serial' = Surviving(serial, store2)
        /\ accepted' = StillAccepted(accepted, store2)
    /\ spent' = MapSet(spent, toLowerCase(req[p].trimmedEmail), req[p].trimmedOTP)
    /\ sent' = Response("resetPassword", "none",
                        <<"Password reset successfully. You can now login with your new password.">>,
                        req[p].trimmedEmail, req[p].trimmedOTP)
    /\ last' = [op |-> "remove"]
    /\ pc' = [pc EXCEPT ![p] = "idle"]
    /\ req' = [req EXCEPT ![p] = NoRequest]
    /\ UNCHANGED <<now, users, mail, issueCount, issued, consumed>>

(***************************************************************************)
(* The program: request handlers interleaving at their await points.       *)
(***************************************************************************)
Next ==
    \/ Tick
    \/ \E email \in CoreSignups : Signup(email)
    \/ DeliverySettles
    \/ \E p \in Procs :
        \/ \E email \in CoreEmails : ForgotStart(p, email)
        \/ ForgotFound(p)
        \/ \E body \in CoreVerifyBodies : VerifyRequest(p, body)
        \/ \E body \in CoreBodies : ResetStart(p, body)
        \/ ResetFound(p)
        \/ ResetHashed(p)
        \/ ResetWrite(p)
        \/ ResetFinish(p)

Spec == Init /\ [][Next]_vars

\* Sequential runs: a request starts only when no other handler is suspended.
Alone(p) == \A q \in Procs \ {p} : pc[q] = "idle"

SeqNext ==
    \/ Tick
    \/ \E email \in SignupEmails : Signup(email)
    \/ DeliverySettles
    \/ \E p \in Procs :
        /\ Alone(p)
        /\ \/ \E email \in AllEmails : ForgotStart(p, email)
           \/ ForgotFound(p)
           \/ \E body \in AllVerifyBodies : VerifyRequest(p, body)
           \/ \E body \in AllBodies : ResetStart(p, body)
           \/ ResetFound(p)
           \/ ResetHashed(p)
           \/ ResetWrite(p)
           \/ ResetFinish(p)

SeqSpec == Init /\ [][SeqNext]_vars

(***************************************************************************)
(* Properties of the OTPService, checked under StoreSpec.  last describes  *)
(* the call just made: its arguments, the clock at, the record pre that    *)
(* the Map held under the call's key before it, and the value ret.         *)
(***************************************************************************)
\* Two characters are the same letter in either case, or the same character.
SameLetter(a, b) ==
    \/ a = b
    \/ \E i \in DOMAIN LowerLetters :
        {a, b} = {LowerLetters[i], UpperLetters[i]}

\* Two strings of equal length that agree character by character up to case.
CaseEq(s1, s2) ==
    /\ Len(s1) = Len(s2)
    /\ \A i \in 1..Len(s1) : SameLetter(s1[i], s2[i])

\* The keys of the Map that spell the identity e up to letter case.
KeysFor(e) == {k \in DOMAIN otpStore : CaseEq(k, e)}

\* The key the code computes for the call just made.
LastKey == toLowerCase(last.email)

\* C4: isOTPVerified(identity) is false when the identity has no record or
\* its record has expired, whatever the verified flag; it is true only for a
\* present, unexpired, verified record.
C4_IsVerifiedOnlyWhileUnexpired ==
    last.op = "isVerified" =>
        (last.ret = TRUE <=>
            /\ last.pre # NoRecord
            /\ ~(last.at > last.pre.expiresAt)
            /\ last.pre.verified)

\* C5: a verifyOTP call made at least 10 minutes after the record was issued
\* returns false, whatever the code, and deletes the record.
C5_VerifyFailsAfterTTL ==
    (/\ last.op = "verify"
     /\ last.pre # NoRecord
     /\ last.at >= last.issuedAt + OTP_EXPIRY_MINUTES)
        => (last.ret = FALSE /\ LastKey \notin DOMAIN otpStore)

LastIssued == IF LastKey \in DOMAIN issued THEN issued[LastKey] ELSE <<>>

\* C7 as stated: after a second generateAndStoreOTP call for an identity,
\* verifyOTP with the code returned by the first call returns false.
C7_FirstCodeInvalidated ==
    (/\ last.op = "verify"
     /\ Len(LastIssued) >= 2
     /\ last.code = LastIssued[1])
        => last.ret = FALSE

\* C7 as amended: after a second generateAndStoreOTP call for an identity,
\* verifyOTP with the code returned by the first call returns false, unless
\* the latest call drew that same code again.
C7_FirstCodeInvalidatedUnlessRedrawn ==
    (/\ last.op = "verify"
     /\ Len(LastIssued) >= 2
     /\ last.code = LastIssued[1]
     /\ LastIssued[Len(LastIssued)] # LastIssued[1])
        => last.ret = FALSE

\* The first code is presented against the live record of the second issuance.
C7_Witness ==
    /\ last.op = "verify"
    /\ Len(LastIssued) >= 2
    /\ last.code = LastIssued[1]
    /\ LastIssued[Len(LastIssued)] # LastIssued[1]
    /\ last.pre # NoRecord
    /\ ~(last.at > last.pre.expiresAt)
    /\ last.ret = FALSE

\* C8: verified is false right after issuance, turns true only through a
\* verifyOTP call for the identity that returns true, and once true stays
\* true for as long as the same record is stored.
C8_VerifiedMonotonic ==
    [][\A k \in DOMAIN otpStore' :
        IF k \in DOMAIN otpStore /\ serial'[k] = serial[k]
        THEN /\ otpStore[k].verified => otpStore'[k].verified
             /\ (~otpStore[k].verified /\ otpStore'[k].verified) =>
                    /\ last'.op = "verify"
                    /\ last'.ret = TRUE
                    /\ CaseEq(last'.email, k)
        ELSE ~otpStore'[k].verified]_vars

\* A wrong code was presented for a verified record, which is still verified.
C8_Witness ==
    /\ last.op = "verify"
    /\ last.ret = FALSE
    /\ last.pre # NoRecord
    /\ last.pre.verified
    /\ LastKey \in DOMAIN otpStore
    /\ otpStore[LastKey].verified

\* Two identity strings that differ only in letter case and in leading or
\* trailing whitespace.
SameIdentity(e1, e2) == CaseEq(trim(e1), trim(e2))

C1_RecordConsumedOnce ==
    \A n \in DOMAIN consumed : consumed[n] <= 1

MissingPassword ==
    {<<"New password is required">>, <<"Confirm password is required">>}

\* C2: in a sequential run, once a resetPassword for an identity has
\* succeeded and no code was issued for the identity since, no verifyOTP and
\* no resetPassword request for the identity with the same code succeeds:
\* each carrying all its fields is answered with the authorization failure.
C2_SpentCodeRejected ==
    [][(/\ sent'.kind \in {"verifyOTP", "resetPassword"}
        /\ sent'.email \in DOMAIN spent
        /\ spent[sent'.email] = sent'.otp)
          => /\ sent'.error # "none"
             /\ sent'.message \notin MissingPassword => sent'.error = "Unauthorized"]_vars

\* A reset with the code of an earlier successful reset was just refused.
C2_Witness ==
    /\ sent.kind = "resetPassword"
    /\ sent.error = "Unauthorized"
    /\ sent.email \in DOMAIN spent
    /\ spent[sent.email] = sent.otp

\* C3: no resetPassword request that arrives after the expiresAt of the
\* identity's record updates the credential, also when the record was
\* marked verified before it expired.
C3_NoResetAfterExpiry ==
    \A p \in Procs :
        pc[p] = "rp_remove" => ~(req[p].authAt > req[p].authRecord.expiresAt)

\* No row of the users table has this email.
NoAccount(email) == \A id \in DOMAIN users : users[id].email # email

C12_SameAcknowledgment ==
    /\ (sent.kind = "forgotPassword" /\ validateEmail(sent.email)) =>
        /\ sent = Response("forgotPassword", "none", GenericAck, sent.email, <<>>)
        /\ sent = Response("forgotPassword", "none", NoAccountAck, sent.email, <<>>)
    /\ last.op = "sendOTPEmail" => sent = NoResponse

\* A code was issued, its delivery started, and the request acknowledged.
C12_Witness ==
    /\ sent.kind = "forgotPassword"
    /\ sent.error = "none"
    /\ last.op = "issue"
    /\ sent.email \in DOMAIN mail
    /\ ~NoAccount(sent.email)

\* C13: the step that issues a code acknowledges the request before the
\* delivery has settled; a delivery that fails writes no response and leaves
\* the store as it was, and the code it carried, if its record is still the
\* stored one, is accepted by verifyOTP at every time before expiresAt.
C13_DeliveryFailureAbsorbed ==
    [][/\ last'.op = "issue" =>
            /\ sent'.error = "none"
            /\ sent'.message = GenericAck
       /\ (last'.op = "sendOTPEmail" /\ last'.outcome = "failed") =>
            /\ sent' = NoResponse
            /\ otpStore' = otpStore
            /\ \A k \in DOMAIN otpStore :
                (k = last'.email /\ otpStore[k].code = last'.code) =>
                    \A t \in now'..(otpStore[k].expiresAt - 1) :
                        verifyOTP(otpStore', t, k, last'.code).ret]_vars

\* A delivery has just failed while the record of its code is stored and unexpired.
C13_Witness ==
    /\ last.op = "sendOTPEmail"
    /\ last.outcome = "failed"
    /\ last.email \in DOMAIN otpStore
    /\ otpStore[last.email].code = last.code
    /\ now < otpStore[last.email].expiresAt

\* Which branch of OTPService.verifyOTP a call with these arguments takes.
VerifyCase(store, t, key, code) ==
    IF key \notin DOMAIN store THEN "no record"
    ELSE IF t > store[key].expiresAt THEN "expired"
    ELSE IF ~CaseEq(store[key].code, code) THEN "wrong code"
    ELSE "match"

\* Five characters, each a digit or a letter.
WellFormedCode(c) ==
    /\ Len(c) = OTP_LENGTH
    /\ \A i \in 1..Len(c) : c[i] \in DigitSet \cup UpperSet \cup LowerSet

\* C14: a well-formed verify-otp request gets one and the same response,
\* Unauthorized 'Invalid or expired OTP code', when the identity has no
\* record, when its record has expired and when the code is wrong.
C14_OneFailureResponse ==
    [][(/\ sent'.kind = "verifyOTP"
        /\ sent'.email # <<>>
        /\ WellFormedCode(sent'.otp)
        /\ VerifyCase(otpStore, now, sent'.email, sent'.otp)
              \in {"no record", "expired", "wrong code"})
          => sent' = Response("verifyOTP", "Unauthorized", <<"Invalid or expired OTP code">>,
                              sent'.email, sent'.otp)]_vars

\* A wrong code was just refused for an identity whose record is stored and unexpired.
C14_Witness ==
    /\ sent.kind = "verifyOTP"
    /\ sent.error = "Unauthorized"
    /\ last.op = "verify"
    /\ last.ret = FALSE
    /\ VerifyCase(otpStore, now, sent.email, sent.otp) = "wrong code"

\* What a handler does with a request it rejects as malformed.
RejectedUntouched(r) ==
    /\ r.response.error = "Validation"
    /\ r.store = otpStore
    /\ r.call = NoCall

\* A field is missing or empty, or the code as sent is not 5 characters of
\* [0-9A-Z] after upper-casing.
MalformedAsSent(body, fields) ==
    \/ \E f \in fields : body[f] = <<>>
    \/ ~WellFormedCode(body.otp)

\* The same with the code trimmed first.
MalformedAfterTrim(body, fields) ==
    \/ \E f \in fields : body[f] = <<>>
    \/ ~WellFormedCode(trim(body.otp))

VerifyFields == {"email", "otp"}
ResetFields == {"email", "otp", "newPassword", "confirmPassword"}

\* C15 as stated: in every state, a verifyOTP or resetPassword request with a
\* missing or empty field, or with a code that is not 5 characters of
\* [0-9A-Z] after upper-casing, gets a validation error, and its handler
\* calls no OTPService method and leaves every record unchanged.
C15_MalformedNeverReachesStore ==
    /\ \A body \in AllVerifyBodies :
        MalformedAsSent(body, VerifyFields) =>
            RejectedUntouched(verifyOTPHandler(otpStore, now, body))
    /\ \A body \in AllBodies :
        MalformedAsSent(body, ResetFields) =>
            RejectedUntouched(resetPasswordChecks(otpStore, now, body))

\* C15 as amended: the same for a code that is not 5 characters of [0-9A-Z]
\* after trimming and upper-casing.
C15_MalformedAfterTrimNeverReachesStore ==
    /\ \A body \in AllVerifyBodies :
        MalformedAfterTrim(body, VerifyFields) =>
            RejectedUntouched(verifyOTPHandler(otpStore, now, body))
    /\ \A body \in AllBodies :
        MalformedAfterTrim(body, ResetFields) =>
            RejectedUntouched(resetPasswordChecks(otpStore, now, body))

\* A resetPassword request with a code of the wrong length was just rejected
\* while the identity's record is stored.
C15_Witness ==
    /\ sent.kind = "resetPassword"
    /\ sent.error = "Validation"
    /\ ~WellFormedCode(sent.otp)
    /\ sent.otp # <<>>
    /\ last = NoCall
    /\ sent.email \in DOMAIN otpStore

\* The preconditions of resetPassword, numbered as the handler checks them,
\* each stated on the request body and the state the request meets.
\* (3): the record is marked verified, or it is unexpired and holds the code.
Authorised(store, t, key, code) ==
    /\ key \in DOMAIN store
    /\ \/ store[key].verified
       \/ (~(t > store[key].expiresAt) /\ CaseEq(store[key].code, code))

Violated(i, body) ==
    CASE i = 1 -> \/ \E f \in ResetFields : body[f] = <<>>
                  \/ trim(body.email) = <<>>
                  \/ trim(body.otp) = <<>>
      [] i = 2 -> ~WellFormedCode(trim(body.otp))
      [] i = 3 -> ~Authorised(otpStore, now, toLowerCase(trim(body.email)), trim(body.otp))
      [] i = 4 -> body.newPassword # body.confirmPassword
      [] i = 5 -> getPasswordValidationErrors(body.newPassword) # <<>>

FieldMessage ==
    [email |-> <<"Email is required">>, otp |-> <<"OTP code is required">>,
     newPassword |-> <<"New password is required">>,
     confirmPassword |-> <<"Confirm password is required">>]

FieldOrder == <<"email", "otp", "newPassword", "confirmPassword">>

\* The failure that reports precondition i for the body: [error, message]
ResetFailure(i, body) ==
    CASE i = 1 ->
            LET missing == {n \in 1..4 : trim(body[FieldOrder[n]]) = <<>>}
                first == IF missing = {} THEN 1
                         ELSE CHOOSE n \in missing : \A m \in missing : n <= m
            IN  [error |-> "Validation", message |-> FieldMessage[FieldOrder[first]]]
      [] i = 2 -> [error |-> "Validation",
                   message |-> <<"Invalid OTP format. OTP must be 5 alphanumeric characters.">>]
      [] i = 3 -> [error |-> "Unauthorized",
                   message |-> <<"Invalid or expired OTP code. Please request a new OTP.">>]
      [] i = 4 -> [error |-> "Validation", message |-> <<"Passwords do not match">>]
      [] i = 5 -> [error |-> "Validation",
                   message |-> getPasswordValidationErrors(body.newPassword)]

\* The failures that report each precondition, over all request bodies.
ResetFailures == [i \in 1..5 |-> {ResetFailure(i, body) : body \in AllBodies}]

\* C16: in every state and for every request body, resetPassword reports the
\* lowest-numbered violated precondition of (1) fields present, (2) code
\* format, (3) verified or inline verify succeeds, (4) passwords equal,
\* (5) password strength; with none of them violated it goes on to look up
\* the account, and only a missing account (6) is then reported, as NotFound.
\* The failures of different preconditions are different.
C16_FirstViolatedReported ==
    /\ \A body \in AllBodies :
        LET r == resetPasswordChecks(otpStore, now, body)
            violated == {i \in 1..5 : Violated(i, body)}
        IN  IF violated = {}
            THEN r.proceed /\ r.response = NoResponse
            ELSE LET first == CHOOSE i \in violated : \A j \in violated : i <= j
                 IN  /\ ~r.proceed
                     /\ r.response.error = ResetFailure(first, body).error
                     /\ r.response.message = ResetFailure(first, body).message
    /\ \A i \in 1..5, j \in 1..5 : i < j => ResetFailures[i] \cap ResetFailures[j] = {}
    /\ (sent.kind # "none" /\ sent.error = "NotFound") =>
            (sent.kind = "resetPassword" /\ NoAccount(sent.email))
    /\ \A p \in Procs : pc[p] \in {"rp_hash", "rp_update", "rp_remove"} =>
            ~NoAccount(req[p].trimmedEmail)

\* A request with a malformed code for an identity without a record, which
\* violates (2) and (3), was just answered with the failure of (2).
C16_Witness ==
    /\ sent.kind = "resetPassword"
    /\ sent.otp # <<>>
    /\ ~WellFormedCode(sent.otp)
    /\ sent.message = <<"Invalid OTP format. OTP must be 5 alphanumeric characters.">>
    /\ ~Authorised(otpStore, now, sent.email, sent.otp)
    /\ otpStore # EmptyMap

ResetSuccess ==
    <<"Password reset successfully. You can now login with your new password.">>

\* C18: a resetPassword handler that has passed its preconditions first
\* writes the new credential, with the record still stored, and removes the
\* record only after that, in the step that sends the success response; when
\* that response is sent the store holds no record for the identity and
\* isOTPVerified(identity) is false.
C18_UpdateThenRemove ==
    [][/\ \A p \in Procs :
            (pc[p] = "rp_update" /\ pc'[p] = "rp_remove") =>
                /\ users'[req[p].userId].password = hashPassword(req[p].newPassword)
                /\ otpStore' = otpStore
                /\ last' = NoCall
                /\ sent' = NoResponse
       /\ last'.op = "remove" =>
            \E p \in Procs :
                /\ pc[p] = "rp_remove"
                /\ pc'[p] = "idle"
                /\ users[req[p].userId].password = hashPassword(req[p].newPassword)
                /\ sent' = Response("resetPassword", "none", ResetSuccess,
                                    req[p].trimmedEmail, req[p].trimmedOTP)
       /\ (sent'.kind = "resetPassword" /\ sent'.error = "none") =>
            /\ last'.op = "remove"
            /\ sent'.email \notin DOMAIN otpStore'
            /\ ~isOTPVerified(otpStore', sent'.email)]_vars

\* A reset has just succeeded: the credential is the new one and the record is gone.
C18_Witness ==
    /\ sent.kind = "resetPassword"
    /\ sent.error = "none"
    /\ last.op = "remove"
    /\ sent.email \notin DOMAIN otpStore
    /\ \E id \in DOMAIN users :
        /\ users[id].email = sent.email
        /\ users[id].password = hashPassword(StrongPassword)

(***************************************************************************)
(* Further properties of the OTPService, checked under StoreSpec.           *)
(***************************************************************************)
\* C19: for an identity for which generateAndStoreOTP was never called,
\* verifyOTP returns false for every code and isOTPVerified returns false,
\* whatever was done for other identities.
C19_NeverIssuedNeverVerified ==
    (last.op \in {"verify", "isVerified"} /\ LastKey \notin DOMAIN issued)
        => last.ret = FALSE

\* The code stored for another identity, whose record is verified, was
\* presented for an identity that was never issued a code.
C19_Witness ==
    /\ last.op = "verify"
    /\ LastKey \notin DOMAIN issued
    /\ \E k \in DOMAIN otpStore :
        /\ otpStore[k].verified
        /\ ~(now > otpStore[k].expiresAt)
        /\ CaseEq(otpStore[k].code, last.code)

\* The code returned by the latest generateAndStoreOTP call for the key.
LatestIssued(k) == issued[k][Len(issued[k])]

\* C20: generateAndStoreOTP calls for different identities, in any order,
\* leave each other's unexpired records as they are: every stored record
\* holds the code returned to the latest caller for its own identity, a call
\* for one identity changes no unexpired record of another, and verifyOTP
\* for one identity with its own code succeeds while its record is
\* unexpired and changes no record of another identity.
C20_IssuesDoNotInterfere ==
    [][/\ \A k \in DOMAIN otpStore' : otpStore'[k].code = LatestIssued(k)'
       /\ last'.op = "issue" =>
            /\ toLowerCase(last'.email) \in DOMAIN otpStore'
            /\ \A j \in DOMAIN otpStore \ {toLowerCase(last'.email)} :
                ~(now > otpStore[j].expiresAt) =>
                    (j \in DOMAIN otpStore' /\ otpStore'[j] = otpStore[j])
       /\ last'.op = "verify" =>
            /\ (/\ toLowerCase(last'.email) \in DOMAIN otpStore
                /\ ~(now > otpStore[toLowerCase(last'.email)].expiresAt)
                /\ last'.code = LatestIssued(toLowerCase(last'.email)))
                  => last'.ret = TRUE
            /\ \A j \in DOMAIN otpStore \ {toLowerCase(last'.email)} :
                (j \in DOMAIN otpStore' /\ otpStore'[j] = otpStore[j])]_vars

\* Two identities hold records with different codes; the one issued first
\* has just been verified with its own code after the other was issued.
C20_Witness ==
    /\ Cardinality(DOMAIN otpStore) = 2
    /\ last.op = "verify"
    /\ last.ret = TRUE
    /\ serial[LastKey].n = 1
    /\ \E j \in DOMAIN otpStore : j # LastKey /\ otpStore[j].code # otpStore[LastKey].code

(***************************************************************************)
(* Interleaved handlers and the store                                      *)
(***************************************************************************)
\* A stored record is the whole record written by one issuance: its key,
\* and the expiry computed from the time of that issuance.
WholeRecord(store, ser, k) ==
    /\ store[k].email = k
    /\ store[k].expiresAt = ser[k].at + OTP_EXPIRY_MINUTES
    /\ WellFormedCode(store[k].code)

\* C21: every store operation runs as one step between the awaits of the
\* handlers: under any interleaving, an issue leaves for its identity exactly
\* one record, the one of the call that ran last, complete and holding the
\* code returned to that caller; every record any step can see is the whole
\* record of one issuance, and a verify request that is accepted was
\* compared against such a record.
C21_StoreOperationsAtomic ==
    [][/\ \A k \in DOMAIN otpStore' : WholeRecord(otpStore', serial', k)
       /\ last'.op = "issue" =>
            \E k \in DOMAIN otpStore' :
                /\ serial'[k] = [n |-> issueCount', at |-> now]
                /\ otpStore'[k] = [code |-> last'.ret, email |-> k,
                                   expiresAt |-> now + OTP_EXPIRY_MINUTES,
                                   verified |-> FALSE]
                /\ \A x \in DOMAIN otpStore' : CaseEq(x, k) => x = k
       /\ (sent'.kind = "verifyOTP" /\ sent'.error = "none") =>
            /\ sent'.email \in DOMAIN otpStore
            /\ WholeRecord(otpStore, serial, sent'.email)
            /\ toUpperCase(otpStore[sent'.email].code) = sent'.otp
            /\ ~(now > otpStore[sent'.email].expiresAt)]_vars

\* Two forgotPassword handlers for the same identity were suspended at the
\* same time; the second of them has just issued, and its record is stored.
C21_Witness ==
    /\ last.op = "issue"
    /\ last.overlapped
    /\ issueCount = 2
    /\ \E k \in DOMAIN otpStore :
        /\ serial[k].n = 2
        /\ otpStore[k].code = last.ret
    /\ Cardinality(DOMAIN otpStore) = 1

(***************************************************************************)
(* The eviction sweep of generateAndStoreOTP                               *)
(***************************************************************************)
\* C22: right after a generateAndStoreOTP call returns, the store holds no
\* record, of any identity, whose expiresAt has passed (now > expiresAt);
\* the records the sweep removed are exactly the expired ones, and every
\* unexpired record of another identity is left as it was.
C22_IssueSweepsExpired ==
    [][last'.op = "issue" =>
        LET k == toLowerCase(last'.email)
        IN  /\ \A x \in DOMAIN otpStore' : ~(now > otpStore'[x].expiresAt)
            /\ \A x \in DOMAIN otpStore \ {k} :
                IF now > otpStore[x].expiresAt
                THEN x \notin DOMAIN otpStore' /\ x \in last'.swept
                ELSE /\ x \in DOMAIN otpStore'
                     /\ otpStore'[x] = otpStore[x]
                     /\ x \notin last'.swept]_vars

\* An issue for one identity has just swept the expired record of another.
C22_Witness ==
    /\ last.op = "issue"
    /\ last.swept # {}
    /\ LastKey \notin last.swept
    /\ DOMAIN otpStore = {LastKey}
    /\ issueCount = 2

(***************************************************************************)
(* generateOTP over the range of Math.random                               *)
(***************************************************************************)
\* Math.floor(Math.random() * chars.length) with Math.random() in [0, 1)
RandomIndices == 0..(Len(chars) - 1)

\* The first and last digit and the first and last letter of chars
EdgeIndices == {0, Len(Digits) - 1, Len(Digits), Len(chars) - 1}

\* The draws explored: every mix of the edge indices over the five
\* positions, and every index of chars at each single position.
WideDraws ==
    [1..OTP_LENGTH -> EdgeIndices]
    \cup {[i \in 1..OTP_LENGTH |-> IF i = j THEN x ELSE 0] :
            j \in 1..OTP_LENGTH, x \in RandomIndices}

\* One generateAndStoreOTP call on the empty store, with any of the draws.
GenIssue ==
    /\ otpStore = EmptyMap
    /\ \E email \in {Email_A}, rnd \in WideDraws :
        \E r \in {generateAndStoreOTP(otpStore, now, email, rnd)}, k \in {toLowerCase(email)} :
            /\ otpStore' = r.store
            /\ last' = [op |-> "issue", email |-> email, ret |-> r.ret,
                        at |-> now, pre |-> PreRecord(otpStore, email),
                        swept |-> DOMAIN otpStore \ (DOMAIN r.store \cup {k})]
            /\ issueCount' = issueCount + 1
            /\ serial' = SerialAfterIssue(serial, r.store, k, issueCount + 1, now)
            /\ accepted' = AcceptedAfterIssue(accepted, r.store, k)
            /\ issued' = IssuedAfterIssue(issued, k, r.ret)
    /\ UNCHANGED <<now, users, pc, req, sent, mail, consumed, spent>>

GenSpec == Init /\ [][GenIssue]_vars

\* C23: every code generateOTP returns, which is the code generateAndStoreOTP
\* stores, has exactly 5 characters, each one of the 36 symbols 0-9A-Z, and
\* passes validateOTPFormat; presented to the verify or the reset endpoint
\* it is not rejected as malformed (it is accepted).
C23_IssuedCodeWellFormed ==
    last.op = "issue" =>
        LET c == last.ret
            k == LastKey
        IN  /\ Len(c) = 5
            /\ \A i \in 1..Len(c) : c[i] \in Range(Digits) \cup Range(UpperLetters)
            /\ Cardinality(Range(Digits) \cup Range(UpperLetters)) = 36
            /\ validateOTPFormat(c)
            /\ k \in DOMAIN otpStore /\ otpStore[k].code = c
            /\ verifyOTPHandler(otpStore, now, [email |-> k, otp |-> c]).response.error = "none"
            /\ resetPasswordChecks(otpStore, now,
                                   [email |-> k, otp |-> c, newPassword |-> StrongPassword,
                                    confirmPassword |-> StrongPassword]).proceed

\* The code drawn from the last index at both ends and the first digit,
\* first letter and last digit in between.
C23_Witness ==
    /\ last.op = "issue"
    /\ last.ret = <<"Z", "0", "A", "9", "Z">>
    /\ otpStore[LastKey].code = last.ret

(***************************************************************************)
(* What a successful or failed resetPassword did                           *)
(***************************************************************************)
\* C24: every resetPassword request that succeeds carried a code equal,
\* letter case aside, to the code of the identity's record at the time of
\* the authorization check, also when that record had been marked verified
\* by an earlier verifyOTP request.
C24_ResetCarriedStoredCode ==
    \A p \in Procs :
        pc[p] = "rp_remove" =>
            toUpperCase(req[p].trimmedOTP) = toUpperCase(req[p].authRecord.code)

\* C25: a successful resetPassword deletes only the record it was authorized
\* by: when a forgotPassword has stored a new record for the identity while
\* the reset was suspended at an await, the completion of the reset leaves
\* that record stored as it is.
C25_ResetRemovesOnlyItsRecord ==
    [][\A p \in Procs :
        (/\ pc[p] = "rp_remove"
         /\ pc'[p] = "idle"
         /\ req[p].trimmedEmail \in DOMAIN otpStore
         /\ serial[req[p].trimmedEmail].n # req[p].auth)
            => /\ req[p].trimmedEmail \in DOMAIN otpStore'
               /\ otpStore'[req[p].trimmedEmail] = otpStore[req[p].trimmedEmail]]_vars

\* C26: a resetPassword request that fails leaves the OTP store exactly as
\* it was before the request; in particular one that fails on mismatching
\* or weak passwords or on an unknown account does not change the verified
\* flag of the identity's record.
C26_FailedResetLeavesStore ==
    [][(sent'.kind = "resetPassword" /\ sent'.error # "none") => otpStore' = otpStore]_vars

\* The step just taken answered a resetPassword request with a failure.
ResetFailed == sent'.kind = "resetPassword" /\ sent'.error # "none"

\* C27 as stated: a resetPassword request that fails never updates the
\* credential and never deletes the identity's record.
C27_FailedResetKeepsRecord ==
    [][ResetFailed =>
        /\ users' = users
        /\ sent'.email \in DOMAIN otpStore => sent'.email \in DOMAIN otpStore']_vars

\* C27: a resetPassword request that fails never updates the credential and
\* never deletes the identity's record while that record is unexpired (an
\* expired record is deleted by the inline verification): the unexpired
\* record keeps its code and expiry, and a later request carrying that code
\* and acceptable passwords passes every check.
C27_FailedResetKeepsUnexpiredRecord ==
    [][ResetFailed =>
        /\ users' = users
        /\ (sent'.email \in DOMAIN otpStore /\ ~(now > otpStore[sent'.email].expiresAt)) =>
            /\ sent'.email \in DOMAIN otpStore'
            /\ otpStore'[sent'.email].code = otpStore[sent'.email].code
            /\ otpStore'[sent'.email].expiresAt = otpStore[sent'.email].expiresAt
            /\ resetPasswordChecks(otpStore', now',
                                   [email |-> sent'.email,
                                    otp |-> otpStore[sent'.email].code,
                                    newPassword |-> StrongPassword,
                                    confirmPassword |-> StrongPassword]).proceed]_vars

\* A reset with a wrong code was just refused; the unexpired, unverified
\* record of the identity is still stored.
C27_Witness ==
    /\ sent.kind = "resetPassword"
    /\ sent.error = "Unauthorized"
    /\ sent.email \in DOMAIN otpStore
    /\ ~(now > otpStore[sent.email].expiresAt)
    /\ ~otpStore[sent.email].verified
    /\ sent.otp # otpStore[sent.email].code

(***************************************************************************)
(* Registered accounts and forgotPassword                                  *)
(***************************************************************************)
\* C28: every forgotPassword request whose e-mail is, letter case aside, the
\* registered e-mail of an account created through signup finds the account
\* and stores an OTP record for the identity.
C28_RegisteredAccountGetsCode ==
    [][(/\ sent'.kind = "forgotPassword"
        /\ sent'.error = "none"
        /\ \E id \in DOMAIN users : CaseEq(users[id].email, sent'.email))
          => /\ last'.op = "issue"
             /\ sent'.email \in DOMAIN otpStore'
             /\ otpStore'[sent'.email].code = last'.ret]_vars

(***************************************************************************)
(* The frame of a verifyOTP store call                                     *)
(***************************************************************************)
\* C29: a verifyOTP store call changes at most the record of the identity
\* it addresses: it adds no record, changes the code, the key and the
\* expiresAt of none (a successful call does not extend the validity
\* window), leaves every other identity's record as it was, and when it
\* returns false for an unexpired record it changes nothing at all.
C29_VerifyFrame ==
    [][last'.op = "verify" =>
        LET k == toLowerCase(last'.email)
        IN  /\ \A x \in DOMAIN otpStore' :
                /\ x \in DOMAIN otpStore
                /\ otpStore'[x].code = otpStore[x].code
                /\ otpStore'[x].expiresAt = otpStore[x].expiresAt
                /\ otpStore'[x].email = otpStore[x].email
            /\ \A x \in DOMAIN otpStore \ {k} :
                x \in DOMAIN otpStore' /\ otpStore'[x] = otpStore[x]
            /\ (/\ ~last'.ret
                /\ k \in DOMAIN otpStore
                /\ ~(now > otpStore[k].expiresAt)) => otpStore' = otpStore]_vars

\* A code was accepted at the last instant of its window, after the time
\* of its issuance, while another identity's record was stored; the record
\* still expires when it did.
C29_Witness ==
    /\ last.op = "verify"
    /\ last.ret = TRUE
    /\ last.at > last.issuedAt
    /\ otpStore[LastKey].expiresAt = last.pre.expiresAt
    /\ Cardinality(DOMAIN otpStore) = 2

(***************************************************************************)
(* The order of the protocol                                               *)
(***************************************************************************)
\* C30: every credential update written by a resetPassword handler comes
\* after a generateAndStoreOTP call for the identity of the account and
\* after a later verifyOTP store call for that identity that returned true
\* for the record issued; no credential is updated for an identity that was
\* never issued a code.
C30_UpdateAfterIssueAndVerify ==
    \A p \in Procs :
        pc[p] = "rp_remove" =>
            /\ req[p].auth \in 1..issueCount
            /\ req[p].authAccepted
            /\ req[p].userId \in DOMAIN users
            /\ toLowerCase(users[req[p].userId].email) = req[p].trimmedEmail

\* A handler has written the credential on the authority of the second
\* record issued in the run, which a verifyOTP call had accepted.
C30_Witness ==
    \E p \in Procs :
        /\ pc[p] = "rp_remove"
        /\ issueCount = 2
        /\ req[p].auth = 2
        /\ req[p].authAccepted
        /\ users[req[p].userId].password = hashPassword(req[p].newPassword)

====
